---- MODULE Spec2Model ----
(***************************************************************************)
(* Model of the picorv32 AES co-processor tooling:                         *)
(*   generate_program_hex.py  instruction encoders, test program, memory   *)
(*                            image                                        *)
(*   scripts/image_to_hex.py  bytes -> 16-byte hex blocks with a size line *)
(*   scripts/hex_to_image.py  hex blocks -> bytes                          *)
(*                                                                         *)
(* A Python integer that is used as a bit pattern is modelled as the set   *)
(* of its one-bit positions: x | y is the union, x << k adds k to every    *)
(* position, x & mask keeps the positions of the mask.  This keeps words   *)
(* with bit 31 set, and values that spill above bit 31, exact.             *)
(***************************************************************************)
EXTENDS Integers, Sequences, FiniteSets, TLC

VARIABLES
    \* one call of a format encoder
    fmt, args, word, encoded,
    \* image_to_hex / hex_to_image on one file
    ran, data, padded, hexfile, outBytes, outWritten, exitStatus, warnings, noise,
    \* main() of generate_program_hex.py
    mainPc, mainI, program, dataWords, memory, hexOut,
    \* the processor and co-processor running the image
    cpuState, pc, regs, cpuMem, aesDone, startCount, ptLog, keyLog, readLog,
    storeLog, sawNonzero

encVars   == <<fmt, args, word, encoded>>
codecVars == <<ran, data, padded, hexfile, outBytes, outWritten, exitStatus, warnings, noise>>
mainVars  == <<mainPc, mainI, program, dataWords, memory, hexOut>>
cpuVars   == <<cpuState, pc, regs, cpuMem, aesDone, startCount, ptLog, keyLog,
               readLog, storeLog, sawNonzero>>
vars      == <<encVars, codecVars, mainVars, cpuVars>>

\* ------------------------------------------------------------ bit helpers

\* Pow2[n] is 2^n, n in 0..30.
Pow2 == [n \in 0..30 |->
            <<1, 2, 4, 8, 16, 32, 64, 128, 256, 512, 1024, 2048, 4096, 8192, 16384,
              32768, 65536, 131072, 262144, 524288, 1048576, 2097152, 4194304,
              8388608, 16777216, 33554432, 67108864, 134217728, 268435456,
              536870912, 1073741824>>[n + 1]]

\* The one-bit positions of a small non-negative integer.
Bits(n) == {i \in 0..30 : (n \div Pow2[i]) % 2 = 1}

BitAt(S, i) == IF i \in S THEN 1 ELSE 0

\* (x >> lo) & 0xF, as an integer
Nibble(S, lo) ==
    BitAt(S, lo) + 2 * BitAt(S, lo + 1) + 4 * BitAt(S, lo + 2) + 8 * BitAt(S, lo + 3)

\* The integer a bit set below position 31 stands for.
Val(S) ==
    Nibble(S, 0) + 16 * (Nibble(S, 4) + 16 * (Nibble(S, 8) + 16 * (Nibble(S, 12)
      + 16 * (Nibble(S, 16) + 16 * (Nibble(S, 20) + 16 * (Nibble(S, 24)
      + 16 * (BitAt(S, 28) + 2 * BitAt(S, 29) + 4 * BitAt(S, 30))))))))

\* x << k
Shl(S, k) == {b + k : b \in S}

\* (x >> lo) & (2^width - 1), as an integer
Field(S, lo, width) == Val({b - lo : b \in {x \in S : lo <= x /\ x < lo + width}})

\* (x >> lo) & (2^width - 1), as a bit pattern
Slice(S, lo, width) == {b - lo : b \in {x \in S : lo <= x /\ x < lo + width}}

\* Two's-complement reading of a width-bit field value.
Signed(v, width) == IF v >= Pow2[width - 1] THEN v - Pow2[width] ELSE v

\* ------------------------------------------------- instruction encoders

\* A mask one bit too wide: the immediate spills into bit 32.
encode_i_type_widemask(opcode, funct3, rd, rs1, imm) ==
    Shl(Bits(imm % 8192), 20) \cup Shl(Bits(rs1), 15) \cup Shl(Bits(funct3), 12)
      \cup Shl(Bits(rd), 7) \cup Bits(opcode)

encode_i_type(opcode, funct3, rd, rs1, imm) ==
    Shl(Bits(imm % 4096), 20) \cup Shl(Bits(rs1), 15) \cup Shl(Bits(funct3), 12)
      \cup Shl(Bits(rd), 7) \cup Bits(opcode)

encode_r_type(opcode, funct3, funct7, rd, rs1, rs2) ==
    Shl(Bits(funct7), 25) \cup Shl(Bits(rs2), 20) \cup Shl(Bits(rs1), 15)
      \cup Shl(Bits(funct3), 12) \cup Shl(Bits(rd), 7) \cup Bits(opcode)

encode_s_type(opcode, funct3, rs1, rs2, imm) ==
    LET imm_11_5 == (imm \div 32) % 128
        imm_4_0  == imm % 32
    IN  Shl(Bits(imm_11_5), 25) \cup Shl(Bits(rs2), 20) \cup Shl(Bits(rs1), 15)
          \cup Shl(Bits(funct3), 12) \cup Shl(Bits(imm_4_0), 7) \cup Bits(opcode)

\* imm[11] and imm[4:1] placed in each other's position.
encode_b_type_swapped(opcode, funct3, rs1, rs2, imm) ==
    LET imm_12   == (imm \div 4096) % 2
        imm_10_5 == (imm \div 32) % 64
        imm_4_1  == (imm \div 2) % 16
        imm_11   == (imm \div 2048) % 2
    IN  Shl(Bits(imm_12), 31) \cup Shl(Bits(imm_10_5), 25) \cup Shl(Bits(rs2), 20)
          \cup Shl(Bits(rs1), 15) \cup Shl(Bits(funct3), 12)
          \cup Shl(Bits(imm_4_1), 7) \cup Shl(Bits(imm_11), 11) \cup Bits(opcode)

encode_b_type(opcode, funct3, rs1, rs2, imm) ==
    LET imm_12   == (imm \div 4096) % 2
        imm_10_5 == (imm \div 32) % 64
        imm_4_1  == (imm \div 2) % 16
        imm_11   == (imm \div 2048) % 2
    IN  Shl(Bits(imm_12), 31) \cup Shl(Bits(imm_10_5), 25) \cup Shl(Bits(rs2), 20)
          \cup Shl(Bits(rs1), 15) \cup Shl(Bits(funct3), 12)
          \cup Shl(Bits(imm_4_1), 8) \cup Shl(Bits(imm_11), 7) \cup Bits(opcode)

\* ----------------------------------------------------- derived encoders

OP_IMM    == 19     \* 0b0010011
OP_LOAD   == 3      \* 0b0000011
OP_STORE  == 35     \* 0b0100011
OP_BRANCH == 99     \* 0b1100011
OP_AES    == 11     \* 0b0001011

F7_LOAD_PT  == 32   \* 0b0100000
F7_LOAD_KEY == 33   \* 0b0100001
F7_START    == 34   \* 0b0100010
F7_READ     == 35   \* 0b0100011
F7_STATUS   == 36   \* 0b0100100

addi(rd, rs1, imm) == encode_i_type(OP_IMM, 0, rd, rs1, imm)

lw(rd, rs1, offset) == encode_i_type(OP_LOAD, 2, rd, rs1, offset)

\* The index register and the data register given in each other's place.
aes_load_pt_swapped(rs2, rs1) == encode_r_type(OP_AES, 0, F7_LOAD_PT, 0, rs2, rs1)

\* Base register and source register given in each other's place.
sw_swapped(rs2, rs1, offset) == encode_s_type(OP_STORE, 2, rs2, rs1, offset)

\* The offset counted from the instruction after the branch.
beqz_next(rs1, offset) == encode_b_type(OP_BRANCH, 0, rs1, 0, offset - 4)

sw(rs2, rs1, offset) == encode_s_type(OP_STORE, 2, rs1, rs2, offset)

beqz(rs1, offset) == encode_b_type(OP_BRANCH, 0, rs1, 0, offset)

aes_load_pt(rs2, rs1) == encode_r_type(OP_AES, 0, F7_LOAD_PT, 0, rs1, rs2)

aes_load_key(rs2, rs1) == encode_r_type(OP_AES, 0, F7_LOAD_KEY, 0, rs1, rs2)

aes_start == encode_r_type(OP_AES, 0, F7_START, 0, 0, 0)

aes_read(rd, rs1) == encode_r_type(OP_AES, 0, F7_READ, rd, rs1, 0)

aes_status(rd) == encode_r_type(OP_AES, 0, F7_STATUS, rd, 0, 0)

nop == addi(0, 0, 0)

\* ------------------------------------------------------------------------
\* Calls of the four format encoders
\* ------------------------------------------------------------------------

NoArgs == [opcode |-> 0, funct3 |-> 0, funct7 |-> 0, rd |-> 0, rs1 |-> 0,
           rs2 |-> 0, imm |-> 0]

\* Argument values tried: in range, at the edges of the range, and above it.
OpcodeVals == {OP_AES, OP_BRANCH, 127, 128 + OP_IMM}
Funct3Vals == {0, 7, 8 + 2}
Funct7Vals == {0, F7_STATUS, 127, 128 + F7_LOAD_PT}
RegVals    == {0, 5, 31, 32 + 5}
ImmVals    == {-4097, -4096, -2049, -2048, -4, -1, 0, 1, 8, 2046, 2047, 2048,
               4094, 4096 + 6}

InitEnc ==
    /\ fmt \in {"R", "I", "S", "B"}
    /\ \E o \in OpcodeVals, f3 \in Funct3Vals, a \in RegVals :
         \/ /\ fmt = "R"
            /\ \E f7 \in Funct7Vals, b \in RegVals, c \in RegVals :
                 args = [opcode |-> o, funct3 |-> f3, funct7 |-> f7, rd |-> a,
                         rs1 |-> b, rs2 |-> c, imm |-> 0]
         \/ /\ fmt = "I"
            /\ \E b \in RegVals, i \in ImmVals :
                 args = [opcode |-> o, funct3 |-> f3, funct7 |-> 0, rd |-> a,
                         rs1 |-> b, rs2 |-> 0, imm |-> i]
         \/ /\ fmt \in {"S", "B"}
            /\ \E b \in RegVals, i \in ImmVals :
                 args = [opcode |-> o, funct3 |-> f3, funct7 |-> 0, rd |-> 0,
                         rs1 |-> a, rs2 |-> b, imm |-> i]
    /\ word = {}
    /\ encoded = FALSE
    /\ ran = {} /\ data = <<>> /\ padded = <<>> /\ hexfile = <<>>
    /\ outBytes = <<>> /\ outWritten = FALSE /\ exitStatus = -1
    /\ warnings = 0 /\ noise = 0
    /\ mainPc = "-" /\ mainI = 0 /\ program = <<>> /\ dataWords = <<>>
    /\ memory = <<>> /\ hexOut = <<>>
    /\ cpuState = "off" /\ pc = 0 /\ regs = <<>> /\ cpuMem = <<>>
    /\ aesDone = FALSE /\ startCount = 0 /\ ptLog = <<>> /\ keyLog = <<>>
    /\ readLog = <<>> /\ storeLog = <<>> /\ sawNonzero = FALSE

CallEncodeR ==
    /\ fmt = "R" /\ ~encoded
    /\ word' = encode_r_type(args.opcode, args.funct3, args.funct7, args.rd,
                             args.rs1, args.rs2)
    /\ encoded' = TRUE
    /\ UNCHANGED <<fmt, args, codecVars, mainVars, cpuVars>>

CallEncodeI ==
    /\ fmt = "I" /\ ~encoded
    /\ word' = encode_i_type(args.opcode, args.funct3, args.rd, args.rs1, args.imm)
    /\ encoded' = TRUE
    /\ UNCHANGED <<fmt, args, codecVars, mainVars, cpuVars>>

CallEncodeS ==
    /\ fmt = "S" /\ ~encoded
    /\ word' = encode_s_type(args.opcode, args.funct3, args.rs1, args.rs2, args.imm)
    /\ encoded' = TRUE
    /\ UNCHANGED <<fmt, args, codecVars, mainVars, cpuVars>>

CallEncodeB ==
    /\ fmt = "B" /\ ~encoded
    /\ word' = encode_b_type(args.opcode, args.funct3, args.rs1, args.rs2, args.imm)
    /\ encoded' = TRUE
    /\ UNCHANGED <<fmt, args, codecVars, mainVars, cpuVars>>

NextEnc == CallEncodeR \/ CallEncodeI \/ CallEncodeS \/ CallEncodeB

\* ------------------------------------------------------------------------
\* scripts/image_to_hex.py and scripts/hex_to_image.py
\* A byte is an integer 0..255, a text line a sequence of one-character
\* strings that ends with "\n", a file a sequence of lines.
\* ------------------------------------------------------------------------

HexDigits == <<"0", "1", "2", "3", "4", "5", "6", "7", "8", "9",
               "a", "b", "c", "d", "e", "f">>

UpperDigits == <<"0", "1", "2", "3", "4", "5", "6", "7", "8", "9",
                 "A", "B", "C", "D", "E", "F">>

IsHexChar(c) == \E v \in 1..16 : HexDigits[v] = c \/ UpperDigits[v] = c

\* The value of one hexadecimal character (either case, as int(..., 16) and
\* bytes.fromhex read it).
HexValue(c) == (CHOOSE v \in 1..16 : HexDigits[v] = c \/ UpperDigits[v] = c) - 1

RECURSIVE HexOf(_)
\* format(n, "x"): the hexadecimal digits of n, no leading zeros.
HexOf(n) == IF n < 16 THEN <<HexDigits[n + 1]>>
            ELSE HexOf(n \div 16) \o <<HexDigits[(n % 16) + 1]>>

Repeat(c, k) == [i \in 1..k |-> c]

\* f"{n:08x}": at least 8 digits, zero-padded on the left.
Format08x(n) == LET d == HexOf(n)
                IN  IF Len(d) >= 8 THEN d ELSE Repeat("0", 8 - Len(d)) \o d

RECURSIVE BlockHex(_)
\* bytes.hex(): two lowercase digits per byte.
BlockHex(bs) == IF bs = <<>> THEN <<>>
                ELSE <<HexDigits[(Head(bs) \div 16) + 1], HexDigits[(Head(bs) % 16) + 1]>>
                       \o BlockHex(Tail(bs))

\* Missing the outer "% 16": a whole block of padding after a full last block.
PaddingNeededNoWrap(n) == 16 - (n % 16)

PaddingNeeded(n) == (16 - (n % 16)) % 16

PadData(bs) == LET k == PaddingNeeded(Len(bs))
               IN  IF k > 0 THEN bs \o Repeat(k, k) ELSE bs

MetadataLine(n) == Format08x(n) \o Repeat("0", 24) \o <<"\n">>

\* range(0, n + 1, 16): one start too many when n is a multiple of 16.
BlockStartsInclusive(n) == {i \in 0..n : i % 16 = 0}

\* range(0, n, 16)
BlockStarts(n) == {i \in 0..(n - 1) : i % 16 = 0}

Min(a, b) == IF a < b THEN a ELSE b

\* data[i:j] of Python, 0-based, clipped to the sequence.
PySlice(s, i, j) == SubSeq(s, i + 1, Min(j, Len(s)))

\* The lines image_to_hex writes for the padded data.
HexLines(n, pd) ==
    LET starts == BlockStarts(Len(pd))
    IN  <<MetadataLine(n)>> \o
        [k \in 1..Cardinality(starts) |->
            BlockHex(PySlice(pd, 16 * (k - 1), 16 * (k - 1) + 16)) \o <<"\n">>]

Whitespace == {" ", "\n", "\t", "\r"}

RECURSIVE LStrip(_)
LStrip(l) == IF l # <<>> /\ Head(l) \in Whitespace THEN LStrip(Tail(l)) ELSE l

RECURSIVE RStrip(_)
RStrip(l) == IF l # <<>> /\ l[Len(l)] \in Whitespace
             THEN RStrip(SubSeq(l, 1, Len(l) - 1)) ELSE l

\* str.strip()
Strip(l) == RStrip(LStrip(l))

IsComment(l) == Len(l) >= 2 /\ l[1] = "/" /\ l[2] = "/"

\* A filter that keeps the "//" lines.
KeepLineNoComment(l) == Strip(l) # <<>>

\* The condition of the list comprehension that reads the file.
KeepLine(l) == Strip(l) # <<>> /\ ~IsComment(Strip(l))

\* [line.strip() for line in f if line.strip() and not ...startswith('//')]
ReadLines(f) == LET kept == SelectSeq(f, KeepLine)
                IN  [k \in 1..Len(kept) |-> Strip(kept[k])]

RECURSIVE HexNumber(_)
\* The number a sequence of hexadecimal characters spells.
HexNumber(cs) == IF cs = <<>> THEN 0
                 ELSE 16 * HexNumber(SubSeq(cs, 1, Len(cs) - 1)) + HexValue(cs[Len(cs)])

\* int(s, 16) raises ValueError on an empty or non-hexadecimal string.
IntOk(cs) == cs # <<>> /\ \A i \in 1..Len(cs) : IsHexChar(cs[i])

\* bytes.fromhex skips whitespace and wants an even number of hex digits.
FromHexOk(l) ==
    LET cs == SelectSeq(l, LAMBDA c : c \notin Whitespace)
    IN  Len(cs) % 2 = 0 /\ \A i \in 1..Len(cs) : IsHexChar(cs[i])

FromHex(l) ==
    LET cs == SelectSeq(l, LAMBDA c : c \notin Whitespace)
    IN  [k \in 1..(Len(cs) \div 2) |-> 16 * HexValue(cs[2 * k - 1]) + HexValue(cs[2 * k])]

RECURSIVE ConcatRange(_, _, _)
\* ss[lo] \o ... \o ss[hi], halving the range
ConcatRange(ss, lo, hi) ==
    IF lo > hi THEN <<>>
    ELSE IF lo = hi THEN ss[lo]
    ELSE LET mid == (lo + hi) \div 2
         IN  ConcatRange(ss, lo, mid) \o ConcatRange(ss, mid + 1, hi)

\* all_bytes.extend(block_bytes) for every block in turn
Concat(ss) == ConcatRange(ss, 1, Len(ss))

\* No trimming: the padding stays in the output.
TrimNothing(all, n) == all

\* all_bytes[:original_size]
TrimToSize(all, n) == PySlice(all, 0, n)

\* Bounds of the inputs.
SmallLen      == 2
MaxLen        == 33
BigLen        == 4096
MaxNoise      == 2
MaxNoisyLines == 3

SmallBytes == {0, 16, 255}

RECURSIVE SeqsUpTo(_, _)
SeqsUpTo(S, n) == IF n = 0 THEN {<<>>}
                  ELSE LET shorter == SeqsUpTo(S, n - 1)
                       IN  shorter \cup {Append(s, b) : s \in shorter, b \in S}

Pattern(n, seed) == [i \in 1..n |-> (seed + 37 * (i - 1)) % 256]

Inputs == SeqsUpTo(SmallBytes, SmallLen)
            \cup {Pattern(n, seed) : n \in 0..MaxLen, seed \in {7, 250}}
            \cup {Pattern(BigLen, 0)}

\* Lines a memory dump may carry besides the blocks.
NoiseLines == { <<"\n">>, <<" ", "\t", "\n">>,
                <<"/", "/", " ", "@", "0", "\n">>, <<" ", "/", "/", "\n">> }

InitCodec ==
    /\ ran = {}
    /\ data \in Inputs
    /\ padded = <<>> /\ hexfile = <<>>
    /\ outBytes = <<>> /\ outWritten = FALSE /\ exitStatus = -1
    /\ warnings = 0 /\ noise = 0
    /\ fmt = "-" /\ args = NoArgs /\ word = {} /\ encoded = FALSE
    /\ mainPc = "-" /\ mainI = 0 /\ program = <<>> /\ dataWords = <<>>
    /\ memory = <<>> /\ hexOut = <<>>
    /\ cpuState = "off" /\ pc = 0 /\ regs = <<>> /\ cpuMem = <<>>
    /\ aesDone = FALSE /\ startCount = 0 /\ ptLog = <<>> /\ keyLog = <<>>
    /\ readLog = <<>> /\ storeLog = <<>> /\ sawNonzero = FALSE

\* image_to_hex(input_path, output_path)
ImageToHex ==
    /\ ran = {}
    /\ padded' = PadData(data)
    /\ hexfile' = HexLines(Len(data), padded')
    /\ ran' = {"image_to_hex"}
    /\ noise' = 0
    /\ UNCHANGED <<data, outBytes, outWritten, exitStatus, warnings>>
    /\ UNCHANGED <<encVars, mainVars, cpuVars>>

\* The file gains a blank or a comment line somewhere before it is decoded.
Annotate ==
    /\ "hex_to_image" \notin ran
    /\ noise < MaxNoise
    /\ Len(hexfile) <= MaxNoisyLines
    /\ \E at \in 0..Len(hexfile), l \in NoiseLines :
         hexfile' = SubSeq(hexfile, 1, at) \o <<l>> \o SubSeq(hexfile, at + 1, Len(hexfile))
    /\ noise' = noise + 1
    /\ UNCHANGED <<ran, data, padded, outBytes, outWritten, exitStatus, warnings>>
    /\ UNCHANGED <<encVars, mainVars, cpuVars>>

\* hex_to_image(input_path, output_path)
HexToImage ==
    /\ "hex_to_image" \notin ran
    /\ ran' = ran \cup {"hex_to_image"}
    /\ LET lines == ReadLines(hexfile)
       IN  IF lines = <<>>
           THEN \* "Error: Empty hex file", sys.exit(1)
                /\ exitStatus' = 1
                /\ UNCHANGED <<outBytes, outWritten, warnings>>
           ELSE LET metadata == lines[1]
                    data_blocks == Tail(lines)
                IN  IF ~IntOk(PySlice(metadata, 0, 8))
                       \/ \E i \in 1..Len(data_blocks) : ~FromHexOk(data_blocks[i])
                    THEN \* uncaught ValueError
                         /\ exitStatus' = 1
                         /\ UNCHANGED <<outBytes, outWritten, warnings>>
                    ELSE LET original_size == HexNumber(PySlice(metadata, 0, 8))
                             all_bytes ==
                                 Concat([i \in 1..Len(data_blocks) |-> FromHex(data_blocks[i])])
                         IN  /\ warnings' = Cardinality({i \in 1..Len(data_blocks) :
                                                           Len(data_blocks[i]) # 32})
                             /\ outBytes' = TrimToSize(all_bytes, original_size)
                             /\ outWritten' = TRUE
                             /\ exitStatus' = 0
    /\ UNCHANGED <<data, padded, hexfile, noise>>
    /\ UNCHANGED <<encVars, mainVars, cpuVars>>

NextCodec == ImageToHex \/ Annotate \/ HexToImage

\* ------------------------------------------------------------------------
\* generate_program_hex.py: the test program, its data and main()
\* ------------------------------------------------------------------------

\* The bit pattern of a hexadecimal literal, most significant digit first.
HexBits(cs) ==
    LET bitsOf[s \in {cs}] ==
            UNION {Shl(Bits(HexValue(s[k])), 4 * (Len(s) - k)) : k \in 1..Len(s)}
    IN  bitsOf[cs]

\* FIPS-197 test vector
PLAINTEXT == HexBits(<<"0","0","1","1","2","2","3","3","4","4","5","5","6","6","7","7",
                       "8","8","9","9","A","A","B","B","C","C","D","D","E","E","F","F">>)
KEY       == HexBits(<<"0","0","0","1","0","2","0","3","0","4","0","5","0","6","0","7",
                       "0","8","0","9","0","A","0","B","0","C","0","D","0","E","0","F">>)

PT_ADDR     == 256
KEY_ADDR    == 512
RESULT_ADDR == 768

generate_program ==
    <<addi(1, 0, 1), addi(2, 0, 2), addi(3, 0, 3),
      addi(6, 0, 256), addi(4, 0, 512), addi(12, 0, 768)>>
    \o Concat([k \in 1..4 |-> <<lw(5, 6, (k - 1) * 4), aes_load_pt(5, k - 1)>>])
    \o Concat([k \in 1..4 |-> <<lw(5, 4, (k - 1) * 4), aes_load_key(5, k - 1)>>])
    \o <<aes_start>>
    \o <<aes_status(7), beqz(7, -4)>>
    \o Concat([k \in 1..4 |-> <<aes_read(8 + (k - 1), k - 1), sw(8 + (k - 1), 12, (k - 1) * 4)>>])
    \o <<beqz(0, 0)>>

\* The plaintext placed at the byte address instead of the word index.
generate_data_byteaddr ==
    [k \in 1..4 |-> <<256 + (k - 1), Slice(PLAINTEXT, 32 * (k - 1), 32)>>]
    \o [k \in 1..4 |-> <<128 + (k - 1), Slice(KEY, 32 * (k - 1), 32)>>]

\* The dict generate_data returns, as its (index, word) items in insertion order.
generate_data ==
    [k \in 1..4 |-> <<64 + (k - 1), Slice(PLAINTEXT, 32 * (k - 1), 32)>>]
    \o [k \in 1..4 |-> <<128 + (k - 1), Slice(KEY, 32 * (k - 1), 32)>>]

MEM_SIZE == 2048

Max(a, b) == IF a > b THEN a ELSE b

\* f"{word:08x}\n"
WordLine(w) ==
    LET top == Max(7, IF w = {} THEN 0 ELSE (CHOOSE b \in w : \A c \in w : c <= b) \div 4)
    IN  [i \in 1..(top + 1) |-> HexDigits[Nibble(w, 4 * (top + 1 - i)) + 1]] \o <<"\n">>

\* main() has not run and the processor is off.
Init ==
    /\ mainPc = "start" /\ mainI = 0 /\ program = <<>> /\ dataWords = <<>>
    /\ memory = <<>> /\ hexOut = <<>>
    /\ cpuState = "off" /\ pc = 0 /\ regs = <<>> /\ cpuMem = <<>>
    /\ aesDone = FALSE /\ startCount = 0 /\ ptLog = <<>> /\ keyLog = <<>>
    /\ readLog = <<>> /\ storeLog = <<>> /\ sawNonzero = FALSE
    /\ fmt = "-" /\ args = NoArgs /\ word = {} /\ encoded = FALSE
    /\ ran = {} /\ data = <<>> /\ padded = <<>> /\ hexfile = <<>>
    /\ outBytes = <<>> /\ outWritten = FALSE /\ exitStatus = -1
    /\ warnings = 0 /\ noise = 0

\* memory = [nop()] * MEM_SIZE; program = generate_program()
MainFill ==
    /\ mainPc = "start"
    /\ memory' = [i \in 0..(MEM_SIZE - 1) |-> nop]
    /\ program' = generate_program
    /\ mainI' = 0
    /\ mainPc' = "program"
    /\ UNCHANGED <<dataWords, hexOut, encVars, codecVars, cpuVars>>

\* for i, instr in enumerate(program): memory[i] = instr; then data = generate_data()
MainPlaceProgram ==
    /\ mainPc = "program"
    /\ IF mainI < Len(program)
       THEN IF mainI \in DOMAIN memory
            THEN /\ memory' = [memory EXCEPT ![mainI] = program[mainI + 1]]
                 /\ mainI' = mainI + 1
                 /\ UNCHANGED <<mainPc, dataWords>>
            ELSE /\ mainPc' = "IndexError"
                 /\ UNCHANGED <<memory, mainI, dataWords>>
       ELSE /\ dataWords' = generate_data
            /\ mainI' = 0
            /\ mainPc' = "data"
            /\ UNCHANGED memory
    /\ UNCHANGED <<program, hexOut, encVars, codecVars, cpuVars>>

\* for addr, value in data.items(): memory[addr] = value
MainPlaceData ==
    /\ mainPc = "data"
    /\ IF mainI < Len(dataWords)
       THEN LET addr  == dataWords[mainI + 1][1]
                value == dataWords[mainI + 1][2]
            IN  IF addr \in DOMAIN memory
                THEN /\ memory' = [memory EXCEPT ![addr] = value]
                     /\ mainI' = mainI + 1
                     /\ UNCHANGED mainPc
                ELSE /\ mainPc' = "IndexError"
                     /\ UNCHANGED <<memory, mainI>>
       ELSE /\ mainPc' = "write"
            /\ UNCHANGED <<memory, mainI>>
    /\ UNCHANGED <<program, dataWords, hexOut, encVars, codecVars, cpuVars>>

\* for word in memory: f.write(f"{word:08x}\n")
MainWrite ==
    /\ mainPc = "write"
    /\ hexOut' = [k \in 1..MEM_SIZE |-> WordLine(memory[k - 1])]
    /\ mainPc' = "done"
    /\ UNCHANGED <<mainI, program, dataWords, memory, encVars, codecVars, cpuVars>>

\* ------------------------------------------------------------------------
\* The processor that runs the image: RV32I semantics of the five base
\* instructions the program uses, and the co-processor operations selected
\* by funct7 under the custom opcode.  The word index of a load or read
\* operation is the value of the register named in the rs1 field; the data
\* word of a load is the value of the register named in rs2.
\* ------------------------------------------------------------------------

\* The ciphertext the co-processor holds when it is done.
CIPHERTEXT == HexBits(<<"6","9","c","4","e","0","d","8","6","a","7","b","0","4","3","0",
                        "d","8","c","d","b","7","8","0","7","0","b","4","c","5","5","a">>)

Word32 == 0..31

\* The 32-bit pattern of a small signed integer.
SignExt(n) == IF n >= 0 THEN Bits(n) ELSE Word32 \ Bits(-n - 1)

\* 32-bit addition: sum[i] is the column sum of bit i with its carry in.
Add32(A, B) ==
    LET bit(S, i) == IF i \in S THEN 1 ELSE 0
        sum[i \in 0..31] ==
            bit(A, i) + bit(B, i) + (IF i = 0 THEN 0 ELSE sum[i - 1] \div 2)
    IN  {i \in 0..31 : sum[i] % 2 = 1}

\* A byte address the memory holds a word at.
ValidAddr(a) == a \subseteq 2..30 /\ Val(a) \div 4 < MEM_SIZE

ImmI(w) == Signed(Field(w, 20, 12), 12)
ImmS(w) == Signed(Field(w, 25, 7) * 32 + Field(w, 7, 5), 12)
ImmB(w) == Signed(Field(w, 31, 1) * 4096 + Field(w, 7, 1) * 2048
                    + Field(w, 25, 6) * 32 + Field(w, 8, 4) * 2, 13)

SetReg(rf, rd, v) == IF rd = 0 THEN rf ELSE [rf EXCEPT ![rd] = v]

StatusVals == {{}, {0}, {31}}

\* Reset with the memory loaded from program.hex ($readmemh).  Registers
\* other than x0 hold whatever they held.
CpuLoad ==
    /\ mainPc = "done"
    /\ cpuState = "off"
    /\ cpuMem' = [i \in 0..(MEM_SIZE - 1) |-> HexBits(Strip(hexOut[i + 1]))]
    /\ \E junk \in {{}, Word32} :
         regs' = [r \in 0..31 |-> IF r = 0 THEN {} ELSE junk]
    /\ pc' = 0
    /\ cpuState' = "run"
    /\ UNCHANGED <<aesDone, startCount, ptLog, keyLog, readLog, storeLog, sawNonzero>>
    /\ UNCHANGED <<mainVars, encVars, codecVars>>

\* The fields of an instruction word, every format's reading of it.
Decode(w) ==
    [opcode |-> Field(w, 0, 7), rd |-> Field(w, 7, 5), funct3 |-> Field(w, 12, 3),
     rs1 |-> Field(w, 15, 5), rs2 |-> Field(w, 20, 5), funct7 |-> Field(w, 25, 7),
     immI |-> ImmI(w), immS |-> ImmS(w), immB |-> ImmB(w)]

\* The state after the decoded instruction d at pc, st being what a status
\* read returns.
Exec(d, st) ==
    LET cur == [cpuState |-> cpuState, pc |-> pc, regs |-> regs, cpuMem |-> cpuMem,
                startCount |-> startCount, ptLog |-> ptLog, keyLog |-> keyLog,
                readLog |-> readLog, storeLog |-> storeLog, sawNonzero |-> sawNonzero]
        trap == [cur EXCEPT !.cpuState = "trap"]
        next == [cur EXCEPT !.pc = pc + 4]
        aes  == d.opcode = OP_AES /\ d.funct3 = 0
    IN  IF d.opcode = OP_IMM /\ d.funct3 = 0
        THEN [next EXCEPT !.regs = SetReg(regs, d.rd, Add32(regs[d.rs1], SignExt(d.immI)))]
        ELSE IF d.opcode = OP_LOAD /\ d.funct3 = 2
        THEN LET a == Add32(regs[d.rs1], SignExt(d.immI))
             IN  IF ValidAddr(a)
                 THEN [next EXCEPT !.regs = SetReg(regs, d.rd, cpuMem[Val(a) \div 4])]
                 ELSE trap
        ELSE IF d.opcode = OP_STORE /\ d.funct3 = 2
        THEN LET a == Add32(regs[d.rs1], SignExt(d.immS))
             IN  IF ValidAddr(a)
                 THEN [next EXCEPT !.cpuMem = [cpuMem EXCEPT ![Val(a) \div 4] = regs[d.rs2]],
                                   !.storeLog = Append(storeLog,
                                       [addr |-> a, src |-> d.rs2, val |-> regs[d.rs2]])]
                 ELSE trap
        ELSE IF d.opcode = OP_BRANCH /\ d.funct3 = 0
        THEN IF regs[d.rs1] = regs[d.rs2]
             THEN IF pc + d.immB >= 0 /\ pc + d.immB < 4 * MEM_SIZE /\ d.immB % 4 = 0
                  THEN [cur EXCEPT !.pc = pc + d.immB]
                  ELSE trap
             ELSE next
        ELSE IF aes /\ d.funct7 = F7_LOAD_PT
        THEN [next EXCEPT !.ptLog = Append(ptLog, [idx |-> regs[d.rs1], val |-> regs[d.rs2]])]
        ELSE IF aes /\ d.funct7 = F7_LOAD_KEY
        THEN [next EXCEPT !.keyLog = Append(keyLog, [idx |-> regs[d.rs1], val |-> regs[d.rs2]])]
        ELSE IF aes /\ d.funct7 = F7_START
        THEN [next EXCEPT !.startCount = startCount + 1]
        ELSE IF aes /\ d.funct7 = F7_READ
        THEN LET idx == regs[d.rs1]
                 v   == IF idx \subseteq 0..1 THEN Slice(CIPHERTEXT, 32 * Val(idx), 32) ELSE {}
             IN  [next EXCEPT !.regs = SetReg(regs, d.rd, v),
                              !.readLog = Append(readLog, [idx |-> idx, rd |-> d.rd, val |-> v])]
        ELSE IF aes /\ d.funct7 = F7_STATUS
        THEN [next EXCEPT !.regs = SetReg(regs, d.rd, st),
                          !.sawNonzero = sawNonzero \/ st # {}]
        ELSE trap

\* One instruction.
CpuStep ==
    /\ cpuState = "run"
    /\ pc \div 4 \in DOMAIN cpuMem
    /\ \E st \in (IF aesDone THEN StatusVals \ {{}} ELSE StatusVals) :
         \E d \in {Decode(cpuMem[pc \div 4])} : \E n \in {Exec(d, st)} :
             /\ cpuState' = n.cpuState
             /\ pc' = n.pc
             /\ regs' = n.regs
             /\ cpuMem' = n.cpuMem
             /\ startCount' = n.startCount
             /\ ptLog' = n.ptLog
             /\ keyLog' = n.keyLog
             /\ readLog' = n.readLog
             /\ storeLog' = n.storeLog
             /\ sawNonzero' = n.sawNonzero
    /\ UNCHANGED aesDone
    /\ UNCHANGED <<mainVars, encVars, codecVars>>

\* The co-processor finishes the encryption it was started on; its status
\* is nonzero from then on.
AesFinish ==
    /\ cpuState = "run"
    /\ startCount > 0
    /\ ~aesDone
    /\ aesDone' = TRUE
    /\ UNCHANGED <<cpuState, pc, regs, cpuMem, startCount, ptLog, keyLog, readLog,
                   storeLog, sawNonzero>>
    /\ UNCHANGED <<mainVars, encVars, codecVars>>

Next ==
    \/ MainFill
    \/ MainPlaceProgram
    \/ MainPlaceData
    \/ MainWrite
    \/ CpuLoad
    \/ CpuStep
    \/ AesFinish

\* ------------------------------------------------------------------------
\* Specifications
\* ------------------------------------------------------------------------

\* One call of one format encoder on one argument tuple.
SpecEnc == InitEnc /\ [][NextEnc]_vars

\* One file encoded, possibly annotated, and decoded.
SpecCodec == InitCodec /\ [][NextCodec]_vars

\* main() builds the image; the processor loads and runs it.
Spec == Init /\ [][Next]_vars

\* main() runs to its end, the processor is reset and keeps executing, and
\* an encryption that was started ends.
FairSpec ==
    /\ Spec
    /\ WF_vars(MainFill) /\ WF_vars(MainPlaceProgram) /\ WF_vars(MainPlaceData)
    /\ WF_vars(MainWrite) /\ WF_vars(CpuLoad) /\ WF_vars(CpuStep)
    /\ WF_vars(AesFinish)

\* ------------------------------------------------------------------------
\* Properties of the hex codec (under SpecCodec)
\* ------------------------------------------------------------------------

\* image_to_hex has written the file and nothing has touched it since.
Encoded == "image_to_hex" \in ran /\ noise = 0

BothRan == ran = {"image_to_hex", "hex_to_image"}

Ceil16(n) == (n + 15) \div 16

\* A line of exactly 32 lowercase hexadecimal characters and a newline.
IsBlockLine(l) ==
    /\ Len(l) = 33
    /\ l[33] = "\n"
    /\ \A i \in 1..32 : \E v \in 1..16 : HexDigits[v] = l[i]

\* A block line whose first 8 digits spell n and whose other 24 are "0".
IsMetadataFor(l, n) ==
    /\ IsBlockLine(l)
    /\ HexNumber(SubSeq(l, 1, 8)) = n
    /\ \A i \in 9..32 : l[i] = "0"

\* C1: decoding the lines image_to_hex wrote for b gives back exactly b,
\* for every length (0, multiples of 16 and others).
C1_RoundTrip ==
    (BothRan /\ noise = 0) =>
        /\ exitStatus = 0
        /\ outWritten
        /\ Len(outBytes) = Len(data)
        /\ outBytes = data

C1_Witness ==
    /\ BothRan /\ noise = 0
    /\ Len(data) = 21 /\ Len(hexfile) = 3
    /\ outWritten /\ outBytes = data

\* C2 as stated: one metadata line, then ceil(max(len(b),1)/16) data lines.
C2_Original ==
    Encoded =>
        /\ Len(hexfile) = 1 + Ceil16(Max(Len(data), 1))
        /\ IsMetadataFor(hexfile[1], Len(data))

\* C2 amended: one metadata line, then ceil(len(b)/16) data lines, which is
\* no data line at all for the empty input.
C2_DataLines ==
    Encoded =>
        /\ Len(hexfile) = 1 + Ceil16(Len(data))
        /\ IsMetadataFor(hexfile[1], Len(data))
        /\ \A k \in 2..Len(hexfile) : IsBlockLine(hexfile[k])

C2_Witness == Encoded /\ data = <<>> /\ Len(hexfile) = 1

IsBlankLine(l) == \A i \in 1..Len(l) : l[i] \in Whitespace

\* "//" is the first thing on the line that is not whitespace.
IsCommentLine(l) ==
    \E i \in 1..(Len(l) - 1) :
        /\ l[i] = "/" /\ l[i + 1] = "/"
        /\ \A j \in 1..(i - 1) : l[j] \in Whitespace

\* C8: with nothing left after dropping blank and "//" lines, hex_to_image
\* exits with status 1 and writes no output; blank and "//" lines anywhere
\* in an otherwise valid stream leave the decoded bytes as they are.
C8_BlankAndComment ==
    /\ ("hex_to_image" \in ran
          /\ \A k \in 1..Len(hexfile) : IsBlankLine(hexfile[k]) \/ IsCommentLine(hexfile[k]))
         => (exitStatus = 1 /\ ~outWritten /\ outBytes = <<>>)
    /\ (BothRan /\ noise > 0)
         => (exitStatus = 0 /\ outWritten /\ outBytes = data)

C8_Witness ==
    /\ ran = {"hex_to_image"}
    /\ \E k \in 1..Len(hexfile) : IsCommentLine(hexfile[k])
    /\ exitStatus = 1 /\ ~outWritten

\* ------------------------------------------------------------------------
\* Properties of the format encoders (under SpecEnc)
\* ------------------------------------------------------------------------

FieldsInRange ==
    /\ args.opcode \in 0..127 /\ args.funct3 \in 0..7 /\ args.funct7 \in 0..127
    /\ args.rd \in 0..31 /\ args.rs1 \in 0..31 /\ args.rs2 \in 0..31

ImmInRange ==
    IF fmt = "B" THEN args.imm \in -4096..4094 /\ args.imm % 2 = 0
    ELSE args.imm \in -2048..2047

\* The fields of the format other than the immediate, read back from the word.
OtherFieldsHeld ==
    /\ Field(word, 0, 7) = args.opcode
    /\ Field(word, 12, 3) = args.funct3
    /\ Field(word, 15, 5) = args.rs1
    /\ (fmt \in {"R", "I"} => Field(word, 7, 5) = args.rd)
    /\ (fmt \in {"R", "S", "B"} => Field(word, 20, 5) = args.rs2)
    /\ (fmt = "R" => Field(word, 25, 7) = args.funct7)

\* C4: for in-range fields every encoder returns a word below 2^32 whose
\* bit positions give back every field; the split S and B immediates are
\* reassembled and sign-extended.
C4_FieldRoundTrip ==
    (encoded /\ FieldsInRange /\ ImmInRange) =>
        /\ word \subseteq 0..31
        /\ OtherFieldsHeld
        /\ (fmt = "I" => ImmI(word) = args.imm)
        /\ (fmt = "S" => ImmS(word) = args.imm)
        /\ (fmt = "B" => ImmB(word) = args.imm)

C4_Witness ==
    /\ encoded /\ fmt = "B" /\ FieldsInRange
    /\ args.imm = -4 /\ ImmB(word) = -4
    /\ 31 \in word

\* Each field's positions hold the field's value cut to the field's width.
AllFieldsTruncated ==
    /\ Field(word, 0, 7) = args.opcode % 128
    /\ Field(word, 12, 3) = args.funct3 % 8
    /\ Field(word, 15, 5) = args.rs1 % 32
    /\ (fmt \in {"R", "I"} => Field(word, 7, 5) = args.rd % 32)
    /\ (fmt \in {"R", "S", "B"} => Field(word, 20, 5) = args.rs2 % 32)
    /\ (fmt = "R" => Field(word, 25, 7) = args.funct7 % 128)

ImmTruncated ==
    /\ (fmt = "I" => Field(word, 20, 12) = args.imm % 4096)
    /\ (fmt = "S" => Field(word, 25, 7) * 32 + Field(word, 7, 5) = args.imm % 4096)
    /\ (fmt = "B" => Field(word, 31, 1) * 4096 + Field(word, 7, 1) * 2048
                       + Field(word, 25, 6) * 32 + Field(word, 8, 4) * 2
                     = (args.imm % 8192) - (args.imm % 2))

\* C5 as stated: any out-of-range argument is cut to its field's width, the
\* word stays below 2^32 and no field disturbs another.
C5_Original ==
    encoded => (word \subseteq 0..31 /\ AllFieldsTruncated /\ ImmTruncated)

\* C5 amended: only the immediate is cut to its width.  With opcode, funct3,
\* funct7 and the registers in range and any integer immediate, the word is
\* below 2^32, the immediate's positions hold the immediate modulo its width
\* and every other field holds its own value.
C5_ImmediateMasked ==
    (encoded /\ FieldsInRange) =>
        (word \subseteq 0..31 /\ OtherFieldsHeld /\ ImmTruncated)

C5_Witness ==
    /\ encoded /\ fmt = "I" /\ FieldsInRange
    /\ args.imm = 4096 + 6 /\ Field(word, 20, 12) = 6

\* ------------------------------------------------------------------------
\* Properties of the memory image and of the program (under Spec, FairSpec)
\* ------------------------------------------------------------------------

\* addi x0, x0, 0
NopWord == HexBits(<<"0", "0", "0", "0", "0", "0", "1", "3">>)

PrefixIdx == 0..(Len(program) - 1)

DataIdx == (64..67) \cup (128..131)

\* C6: the image always has exactly MEM_SIZE words; the program is the
\* prefix from index 0; the data words sit at 0x40..0x43 and 0x80..0x83,
\* inside the array and outside the prefix; every other word is the no-op.
C6_MemoryImage ==
    /\ mainPc # "IndexError"
    /\ mainPc \notin {"start"} => DOMAIN memory = 0..(MEM_SIZE - 1)
    /\ mainPc \in {"write", "done"} =>
         /\ Len(program) > 0
         /\ \A i \in PrefixIdx : memory[i] = program[i + 1]
         /\ {dataWords[j][1] : j \in 1..Len(dataWords)} = DataIdx
         /\ \A j \in 1..Len(dataWords) : memory[dataWords[j][1]] = dataWords[j][2]
         /\ DataIdx \subseteq 0..(MEM_SIZE - 1)
         /\ DataIdx \cap PrefixIdx = {}
         /\ \A i \in (0..(MEM_SIZE - 1)) \ (PrefixIdx \cup DataIdx) : memory[i] = NopWord
    /\ mainPc = "done" => Len(hexOut) = MEM_SIZE

C6_Witness ==
    /\ mainPc = "done"
    /\ memory[MEM_SIZE - 1] = NopWord
    /\ memory[64] # NopWord
    /\ memory[0] = program[1]

\* Positions (from 1) in the program of iteration i, i in 0..3.
PtLwAt(i)   == 7 + 2 * i
KeyLwAt(i)  == 15 + 2 * i
ReadAt(i)   == 26 + 2 * i

IsLoadWord(w, base, off) ==
    /\ Field(w, 0, 7) = OP_LOAD /\ Field(w, 12, 3) = 2
    /\ Field(w, 15, 5) = base /\ ImmI(w) = off

IsAesOp(w, f7) == Field(w, 0, 7) = OP_AES /\ Field(w, 12, 3) = 0 /\ Field(w, 25, 7) = f7

\* Each iteration is a load-word from the right base and offset followed at
\* once by the co-processor load, and each result word has its read.
LoadPairs ==
    \A i \in 0..3 :
        /\ IsLoadWord(program[PtLwAt(i)], 6, 4 * i)
        /\ IsAesOp(program[PtLwAt(i) + 1], F7_LOAD_PT)
        /\ IsLoadWord(program[KeyLwAt(i)], 4, 4 * i)
        /\ IsAesOp(program[KeyLwAt(i) + 1], F7_LOAD_KEY)
        /\ IsAesOp(program[ReadAt(i)], F7_READ)

StartPc  == 4 * 22
PollPc   == 4 * 23
BranchPc == 4 * 24
EndPc    == 4 * 33

Indices(log) == [k \in 1..Len(log) |-> log[k].idx]

IsPrefixOf(a, b) == Len(a) <= Len(b) /\ a = SubSeq(b, 1, Len(a))

Zero123 == <<Bits(0), Bits(1), Bits(2), Bits(3)>>

C9_State ==
    cpuState # "off" =>
        /\ cpuState = "run"
        /\ IsAesOp(cpuMem[StartPc \div 4], F7_START)
        /\ startCount <= 1
        /\ (pc > StartPc => startCount = 1)
        /\ (pc <= StartPc => startCount = 0)
        /\ IsPrefixOf(Indices(ptLog), Zero123)
        /\ IsPrefixOf(Indices(keyLog), Zero123)
        /\ (keyLog # <<>> => Indices(ptLog) = Zero123)
        /\ (startCount > 0 => Indices(ptLog) = Zero123 /\ Indices(keyLog) = Zero123)
        /\ IsAesOp(cpuMem[PollPc \div 4], F7_STATUS)
        /\ Field(cpuMem[BranchPc \div 4], 0, 7) = OP_BRANCH
        /\ Field(cpuMem[BranchPc \div 4], 12, 3) = 0
        /\ Field(cpuMem[BranchPc \div 4], 20, 5) = 0
        /\ Field(cpuMem[BranchPc \div 4], 15, 5) = Field(cpuMem[PollPc \div 4], 7, 5)
        /\ ImmB(cpuMem[BranchPc \div 4]) = PollPc - BranchPc
        /\ (readLog # <<>> => sawNonzero)

C9_Branch ==
    (cpuState = "run" /\ pc = BranchPc /\ aesDone' = aesDone) =>
        pc' = IF regs[Field(cpuMem[BranchPc \div 4], 15, 5)] = {} THEN PollPc
              ELSE BranchPc + 4

StoresDone ==
    /\ Len(storeLog) = 4
    /\ Len(readLog) = 4
    /\ \A i \in 0..3 :
         /\ readLog[i + 1].idx = Bits(i)
         /\ storeLog[i + 1].addr = Bits(RESULT_ADDR + 4 * i)
         /\ storeLog[i + 1].src = readLog[i + 1].rd
         /\ storeLog[i + 1].val = readLog[i + 1].val
         /\ cpuMem[192 + i] = readLog[i + 1].val

C10_State ==
    cpuState # "off" =>
        /\ cpuState = "run"
        /\ pc \div 4 \in PrefixIdx
        /\ pc % 4 = 0
        /\ \A i \in PrefixIdx \cup DataIdx : cpuMem[i] = memory[i]
        /\ Field(cpuMem[EndPc \div 4], 0, 7) = OP_BRANCH
        /\ Field(cpuMem[EndPc \div 4], 12, 3) = 0
        /\ Field(cpuMem[EndPc \div 4], 15, 5) = 0
        /\ Field(cpuMem[EndPc \div 4], 20, 5) = 0
        /\ ImmB(cpuMem[EndPc \div 4]) = 0
        /\ Len(storeLog) <= 4
        /\ (pc = EndPc => StoresDone)

====
